---- MODULE Spec2Model ----
(***************************************************************************)
(* A model of the CSS selector builder of src/src/05-objects-tasks.js:     *)
(* the MyCssSelectorBuilder objects (str, hasElement and their methods)    *)
(* and the cssSelectorBuilder facade (str, stringify, the six kind         *)
(* methods and combine).                                                   *)
(*                                                                         *)
(* A JavaScript string is a sequence of one-character strings, so that     *)
(* String.prototype.includes is a real substring search and a value may    *)
(* itself hold the marker characters '#', '.', '[' and ':'.                *)
(***************************************************************************)
EXTENDS Naturals, Sequences, FiniteSets, TLC

VARIABLES
    bld,    \* the MyCssSelectorBuilder objects created so far: bld[b] = [str, hasElement]
    fstr,   \* cssSelectorBuilder.str, the facade's own buffer
    toks,   \* history: toks[b] = the calls accepted by builder b since its last stringify
    ever,   \* history: ever[b] = builder b has accepted an element call
    pend,   \* history: the texts denoted by the combine results not yet consumed
    last,   \* the last call made and its outcome
    twice   \* history: the last call repeats the method and the receiver of the one before

vars == <<bld, fstr, toks, ever, pend, last, twice>>

-----------------------------------------------------------------------------
(* Bounds of the model *)

\* calls accepted by one builder between two stringify calls (Spec)
MaxTokens == 4
\* builders created through the facade (SpecFacade)
MaxBuilders == 2
\* characters held in all the buffers together (SpecFacade)
MaxHeapLen == 5
\* fragments created (SpecCombine)
MaxFragments == 3
\* length of the facade's buffer (SpecCombine)
MaxFacadeLen == 12

-----------------------------------------------------------------------------
(* Inputs *)

Kinds == {"element", "id", "class", "attr", "pseudoClass", "pseudoElement"}

\* names of elements, ids, classes and pseudo-elements
Names == { <<"a">> }

\* the free text of an attribute or of a pseudo-class: a name, and texts that
\* hold marker characters, as href$=".png" does in the documentation
Texts ==
    { <<"a">>, <<"h", ".", "p">>, <<"n", "#", "m">>, <<"u", ":", "v">>, <<"s", ":", ":", "t">> }

\* the values handed to the mutator of a kind
Values(kind) == IF kind \in {"attr", "pseudoClass"} THEN Texts ELSE Names

\* values and combinators used with the facade
FacadeValues == { <<"a">> }
Combinators == { <<"+">> }
\* values of the fragments handed to combine (SpecCombine)
FragmentValues == { <<"a">>, <<"b">> }

-----------------------------------------------------------------------------
(* Strings *)

\* String.prototype.includes
Includes(s, sub) ==
    \E i \in 0..Len(s) :
        /\ i + Len(sub) <= Len(s)
        /\ SubSeq(s, i + 1, i + Len(sub)) = sub

-----------------------------------------------------------------------------
(* MyCssSelectorBuilder *)

NoError == "none"
DuplicateMsg ==
    "Element, id and pseudo-element should not occur more then one time inside the selector"
OrderMsg ==
    "Selector parts should be arranged in the following order: element, id, class, attribute, pseudo-class, pseudo-element"

\* new MyCssSelectorBuilder()
NewBuilder == [str |-> <<>>, hasElement |-> FALSE]

\* throw new Error(e): the object is as it was, nothing is returned
Throw(self, e) == [err |-> e, self |-> self]
\* return this
Return(self) == [err |-> NoError, self |-> self]

\* element that records the element before it checks the order
element_FlagFirst(self, value) ==
    IF self.hasElement THEN Throw(self, DuplicateMsg)
    ELSE IF self.str # <<>> THEN Throw([self EXCEPT !.hasElement = TRUE], OrderMsg)
    ELSE Return([self EXCEPT !.hasElement = TRUE, !.str = self.str \o value])

\* element that checks the order before the duplicate
element_OrderFirst(self, value) ==
    IF self.str # <<>> THEN Throw(self, OrderMsg)
    ELSE IF self.hasElement THEN Throw(self, DuplicateMsg)
    ELSE Return([self EXCEPT !.hasElement = TRUE, !.str = self.str \o value])

\* element that does not record the element as written
element_NoFlag(self, value) ==
    IF self.hasElement THEN Throw(self, DuplicateMsg)
    ELSE IF self.str # <<>> THEN Throw(self, OrderMsg)
    ELSE Return([self EXCEPT !.str = self.str \o value])

element(self, value) ==
    IF self.hasElement THEN Throw(self, DuplicateMsg)
    ELSE IF self.str # <<>> THEN Throw(self, OrderMsg)
    ELSE Return([self EXCEPT !.hasElement = TRUE, !.str = self.str \o value])

\* id without the check for a class
id_NoClassCheck(self, value) ==
    IF Includes(self.str, <<"#">>) THEN Throw(self, DuplicateMsg)
    ELSE IF Includes(self.str, <<"[">>) THEN Throw(self, OrderMsg)
    ELSE IF Includes(self.str, <<":">>) THEN Throw(self, OrderMsg)
    ELSE IF Includes(self.str, <<":", ":">>) THEN Throw(self, OrderMsg)
    ELSE Return([self EXCEPT !.str = self.str \o <<"#">> \o value])

id(self, value) ==
    IF Includes(self.str, <<"#">>) THEN Throw(self, DuplicateMsg)
    ELSE IF Includes(self.str, <<".">>) THEN Throw(self, OrderMsg)
    ELSE IF Includes(self.str, <<"[">>) THEN Throw(self, OrderMsg)
    ELSE IF Includes(self.str, <<":">>) THEN Throw(self, OrderMsg)
    ELSE IF Includes(self.str, <<":", ":">>) THEN Throw(self, OrderMsg)
    ELSE Return([self EXCEPT !.str = self.str \o <<"#">> \o value])

\* class without the check for an attribute
class_NoAttrCheck(self, value) ==
    IF Includes(self.str, <<":">>) THEN Throw(self, OrderMsg)
    ELSE IF Includes(self.str, <<":", ":">>) THEN Throw(self, OrderMsg)
    ELSE Return([self EXCEPT !.str = self.str \o <<".">> \o value])

class(self, value) ==
    IF Includes(self.str, <<"[">>) THEN Throw(self, OrderMsg)
    ELSE IF Includes(self.str, <<":">>) THEN Throw(self, OrderMsg)
    ELSE IF Includes(self.str, <<":", ":">>) THEN Throw(self, OrderMsg)
    ELSE Return([self EXCEPT !.str = self.str \o <<".">> \o value])

\* attr that does not close the bracket
attr_Unclosed(self, value) ==
    IF Includes(self.str, <<":">>) \/ Includes(self.str, <<":", ":">>)
    THEN Throw(self, OrderMsg)
    ELSE Return([self EXCEPT !.str = self.str \o <<"[">> \o value])

attr(self, value) ==
    IF Includes(self.str, <<":">>) \/ Includes(self.str, <<":", ":">>)
    THEN Throw(self, OrderMsg)
    ELSE Return([self EXCEPT !.str = self.str \o <<"[">> \o value \o <<"]">>])

pseudoClass(self, value) ==
    IF Includes(self.str, <<":", ":">>) THEN Throw(self, OrderMsg)
    ELSE Return([self EXCEPT !.str = self.str \o <<":">> \o value])

pseudoElement(self, value) ==
    IF Includes(self.str, <<":", ":">>) THEN Throw(self, DuplicateMsg)
    ELSE Return([self EXCEPT !.str = self.str \o <<":", ":">> \o value])

\* stringify that leaves the buffer as it is
stringify_NoReset(self) == [ret |-> self.str, self |-> self]

\* const result = this.str; this.str = ''; return result
stringify(self) == [ret |-> self.str, self |-> [self EXCEPT !.str = <<>>]]

\* the method of a builder that a call of the given kind runs
Invoke(kind, self, value) ==
    CASE kind = "element" -> element(self, value)
      [] kind = "id" -> id(self, value)
      [] kind = "class" -> class(self, value)
      [] kind = "attr" -> attr(self, value)
      [] kind = "pseudoClass" -> pseudoClass(self, value)
      [] kind = "pseudoElement" -> pseudoElement(self, value)

-----------------------------------------------------------------------------
(* Calls on a builder *)

NoObj == 99
Facade == 0

\* a call: the method, the receiver, the selectors handed to combine, the error
\* thrown, the string returned and the object returned
Outcome(op, obj, args, err, ret, retObj) ==
    [op |-> op, obj |-> obj, args |-> args, err |-> err, ret |-> ret, retObj |-> retObj]

\* the call of method op on receiver obj follows the last call
Step(op, obj) == twice' = (last.op = op /\ last.obj = obj)

\* builder b runs the mutator of the given kind
Mutate(b, kind, value) ==
    /\ b \in 1..Len(bld)
    /\ Step(kind, b)
    /\ LET r == Invoke(kind, bld[b], value)
           ok == r.err = NoError
       IN  /\ bld' = [bld EXCEPT ![b] = r.self]
           /\ toks' = IF ok
                      THEN [toks EXCEPT ![b] = Append(@, [kind |-> kind, value |-> value])]
                      ELSE toks
           /\ ever' = IF ok /\ kind = "element" THEN [ever EXCEPT ![b] = TRUE] ELSE ever
           /\ last' = Outcome(kind, b, <<>>, r.err, <<>>, IF ok THEN b ELSE NoObj)
    /\ UNCHANGED <<fstr, pend>>

\* builder b runs stringify
Stringify(b) ==
    /\ b \in 1..Len(bld)
    /\ Step("stringify", b)
    /\ LET r == stringify(bld[b])
       IN  /\ bld' = [bld EXCEPT ![b] = r.self]
           /\ last' = Outcome("stringify", b, <<>>, NoError, r.ret, NoObj)
    /\ toks' = [toks EXCEPT ![b] = <<>>]
    /\ UNCHANGED <<fstr, ever, pend>>

-----------------------------------------------------------------------------
(* Spec: one builder, every sequence of calls on it *)

Init ==
    /\ bld = <<NewBuilder>>
    /\ fstr = <<>>
    /\ toks = << <<>> >>
    /\ ever = << FALSE >>
    /\ pend = <<>>
    /\ last = Outcome("new", 1, <<>>, NoError, <<>>, 1)
    /\ twice = FALSE

Call ==
    /\ Len(toks[1]) < MaxTokens
    /\ \E kind \in Kinds : \E value \in Values(kind) : Mutate(1, kind, value)

CallStringify == Stringify(1)

Next == Call \/ CallStringify

Spec == Init /\ [][Next]_vars

-----------------------------------------------------------------------------
(* cssSelectorBuilder, the facade *)

RECURSIVE SumLen(_)
SumLen(builders) ==
    IF builders = <<>> THEN 0
    ELSE Len(Head(builders).str) + SumLen(Tail(builders))

\* the characters held in all the buffers
HeapLen(builders, f) == SumLen(builders) + Len(f)

\* the objects a method can reach: the builders and the facade's buffer
Heap(b, f) == [bld |-> b, fstr |-> f]

\* facade stringify that leaves the buffer as it is
facadeStringify_NoReset(f) == [ret |-> f, fstr |-> f]

\* cssSelectorBuilder.stringify
facadeStringify(f) == [ret |-> f, fstr |-> <<>>]

\* selector.stringify(), for a selector that is a builder or the facade itself
stringifyOf(heap, sel) ==
    IF sel = Facade
    THEN LET r == facadeStringify(heap.fstr)
         IN  [ret |-> r.ret, heap |-> Heap(heap.bld, r.fstr)]
    ELSE LET r == stringify(heap.bld[sel])
         IN  [ret |-> r.ret, heap |-> Heap([heap.bld EXCEPT ![sel] = r.self], heap.fstr)]

\* combine that overwrites the facade's buffer
combine_Overwrite(heap, selector1, combinator, selector2) ==
    LET a == stringifyOf(heap, selector1)
        b == stringifyOf(a.heap, selector2)
    IN  Heap(b.heap.bld, a.ret \o <<" ">> \o combinator \o <<" ">> \o b.ret)

\* cssSelectorBuilder.combine
combine(heap, selector1, combinator, selector2) ==
    LET a == stringifyOf(heap, selector1)
        b == stringifyOf(a.heap, selector2)
    IN  Heap(b.heap.bld, b.heap.fstr \o a.ret \o <<" ">> \o combinator \o <<" ">> \o b.ret)

\* kind methods that all run element on the new builder
facadeKind_AlwaysElement(kind, value) == element(NewBuilder, value)

\* cssSelectorBuilder.element, .id, .class, .attr, .pseudoClass, .pseudoElement
facadeKind(kind, value) == Invoke(kind, NewBuilder, value)

\* a kind method that keeps to one builder instead of creating a new one each time
FacadeKind_Shared(kind, value) ==
    /\ Step(kind, Facade)
    /\ LET n == Len(bld)
           r == Invoke(kind, IF n = 0 THEN NewBuilder ELSE bld[n], value)
           ok == r.err = NoError
           t == IF ok THEN <<[kind |-> kind, value |-> value]>> ELSE <<>>
       IN  /\ bld' = IF n = 0 THEN <<r.self>> ELSE [bld EXCEPT ![n] = r.self]
           /\ toks' = IF n = 0 THEN <<t>> ELSE [toks EXCEPT ![n] = @ \o t]
           /\ ever' = IF n = 0 THEN <<ok /\ kind = "element">>
                      ELSE [ever EXCEPT ![n] = @ \/ (ok /\ kind = "element")]
           /\ last' = Outcome(kind, Facade, <<>>, r.err, <<>>, IF ok THEN n ELSE NoObj)
    /\ UNCHANGED <<fstr, pend>>

FacadeKind(kind, value) ==
    /\ Step(kind, Facade)
    /\ LET r == facadeKind(kind, value)
           ok == r.err = NoError
       IN  /\ bld' = Append(bld, r.self)
           /\ toks' = Append(toks, IF ok THEN <<[kind |-> kind, value |-> value]>> ELSE <<>>)
           /\ ever' = Append(ever, ok /\ kind = "element")
           /\ last' = Outcome(kind, Facade, <<>>, r.err, <<>>,
                              IF ok THEN Len(bld) + 1 ELSE NoObj)
    /\ UNCHANGED <<fstr, pend>>

FacadeStringify ==
    /\ Step("stringify", Facade)
    /\ LET r == facadeStringify(fstr)
       IN  /\ fstr' = r.fstr
           /\ last' = Outcome("stringify", Facade, <<>>, NoError, r.ret, NoObj)
    /\ pend' = <<>>
    /\ UNCHANGED <<bld, toks, ever>>

\* the text a selector handed to combine stands for: a builder's buffer, or,
\* for the facade, the i-th of the combine results not yet consumed; a facade
\* that holds no such result (i = 0) stands for the empty text
Denotes(sel, i) ==
    IF sel = Facade
    THEN IF i \in 1..Len(pend) THEN pend[i] ELSE <<>>
    ELSE bld[sel].str

\* any selectors may be handed to combine; the results not yet consumed go to
\* the selectors that are the facade, the left one first
Combine(selector1, combinator, selector2) ==
    LET n == (IF selector1 = Facade THEN 1 ELSE 0) + (IF selector2 = Facade THEN 1 ELSE 0)
        m == IF n <= Len(pend) THEN n ELSE Len(pend)
        h == combine(Heap(bld, fstr), selector1, combinator, selector2)
        left == Denotes(selector1, IF m = 0 THEN 0 ELSE Len(pend) - m + 1)
        right == Denotes(selector2, IF m = n THEN Len(pend) ELSE 0)
    IN  /\ Step("combine", Facade)
        /\ bld' = h.bld
        /\ fstr' = h.fstr
        /\ toks' = [b \in 1..Len(toks) |->
                        IF b \in {selector1, selector2} THEN <<>> ELSE toks[b]]
        /\ pend' = Append(SubSeq(pend, 1, Len(pend) - m),
                          left \o <<" ">> \o combinator \o <<" ">> \o right)
        /\ last' = Outcome("combine", Facade, <<selector1, selector2>>, NoError, <<>>, Facade)
        /\ UNCHANGED ever

-----------------------------------------------------------------------------
(* SpecFacade: the facade, the builders it creates, and every interleaving *)
(* of calls on them                                                        *)

InitFacade ==
    /\ bld = <<>>
    /\ fstr = <<>>
    /\ toks = <<>>
    /\ ever = <<>>
    /\ pend = <<>>
    /\ last = Outcome("init", Facade, <<>>, NoError, <<>>, NoObj)
    /\ twice = FALSE

InBounds == HeapLen(bld', fstr') <= MaxHeapLen

FacadeCall ==
    /\ Len(bld) < MaxBuilders
    /\ \E kind \in Kinds, value \in FacadeValues : FacadeKind(kind, value)
    /\ InBounds

BuilderCall ==
    /\ \E b \in 1..Len(bld), kind \in Kinds, value \in FacadeValues : Mutate(b, kind, value)
    /\ InBounds

BuilderStringify == \E b \in 1..Len(bld) : Stringify(b)

CombineCall ==
    \E selector1, selector2 \in {Facade} \cup (1..Len(bld)), combinator \in Combinators :
        Combine(selector1, combinator, selector2) /\ InBounds

NextFacade ==
    FacadeCall \/ BuilderCall \/ BuilderStringify \/ FacadeStringify \/ CombineCall

SpecFacade == InitFacade /\ [][NextFacade]_vars

-----------------------------------------------------------------------------
(* SpecCombine: element fragments combined in every shape, nested or not;  *)
(* the two selectors of a combine are two different fragments, or the      *)
(* facade itself, with or without results of earlier combine calls in it   *)

NewFragment ==
    /\ Len(bld) < MaxFragments
    /\ \E value \in FragmentValues : FacadeKind("element", value)

CombineFragments ==
    /\ \E selector1, selector2 \in {Facade} \cup (1..Len(bld)), combinator \in Combinators :
           /\ selector1 # selector2 \/ selector1 = Facade
           /\ Combine(selector1, combinator, selector2)
    /\ Len(fstr') <= MaxFacadeLen

NextCombine == NewFragment \/ CombineFragments \/ FacadeStringify

SpecCombine == InitFacade /\ [][NextCombine]_vars

-----------------------------------------------------------------------------
(* The selector grammar, as the claims state it *)

\* the token a call of a kind writes: value, #value, .value, [value], :value, ::value
TokenText(t) ==
    CASE t.kind = "element" -> t.value
      [] t.kind = "id" -> <<"#">> \o t.value
      [] t.kind = "class" -> <<".">> \o t.value
      [] t.kind = "attr" -> <<"[">> \o t.value \o <<"]">>
      [] t.kind = "pseudoClass" -> <<":">> \o t.value
      [] t.kind = "pseudoElement" -> <<":", ":">> \o t.value

RECURSIVE Concat(_)
Concat(ts) == IF ts = <<>> THEN <<>> ELSE TokenText(Head(ts)) \o Concat(Tail(ts))

\* the place of a kind in element, id, class, attribute, pseudo-class, pseudo-element
Rank(kind) ==
    CASE kind = "element" -> 1
      [] kind = "id" -> 2
      [] kind = "class" -> 3
      [] kind = "attr" -> 4
      [] kind = "pseudoClass" -> 5
      [] kind = "pseudoElement" -> 6

Repeatable == {"class", "attr", "pseudoClass"}

\* tokens in the canonical order, element, id and pseudo-element at most once
Canonical(ts) ==
    \A i, j \in 1..Len(ts) :
        i < j => /\ Rank(ts[i].kind) <= Rank(ts[j].kind)
                 /\ ts[i].kind = ts[j].kind => ts[i].kind \in Repeatable

Holds(ts, kinds) == \E i \in 1..Len(ts) : ts[i].kind \in kinds

\* a step that is a call of one of the given methods on builder b
Calls(b, ops) == last'.obj = b /\ last'.op \in ops /\ b \in 1..Len(bld)

\* the chain of builder b is the first of a fresh builder: no element call was
\* accepted before the tokens it holds
FirstChain(b) == ever[b] => Holds(toks[b], {"element"})

-----------------------------------------------------------------------------
(* Claims *)

\* C1: every call that keeps a fresh builder's chain in the canonical order
\* succeeds, and stringify() returns the concatenation of the tokens written,
\* in call order.
C1_CanonicalChainAccepted ==
    [][\A b \in 1..Len(bld) :
        /\ \A kind \in Kinds :
              (/\ Calls(b, {kind})
               /\ FirstChain(b)
               /\ Canonical(Append(toks[b], [kind |-> kind, value |-> <<>>])))
              => last'.err = NoError
        /\ Calls(b, {"stringify"}) => last'.ret = Concat(toks[b])]_vars

\* C3: the tokens a builder holds are its buffer, and they are in the canonical
\* order with at most one element, one id and one pseudo-element.
C3_BufferCanonical ==
    \A b \in 1..Len(bld) :
        /\ bld[b].str = Concat(toks[b])
        /\ Canonical(toks[b])

C3_Witness ==
    /\ Len(toks[1]) >= 2 /\ Holds(toks[1], Repeatable)
    /\ last.err = OrderMsg
    /\ ever[1] /\ ~Holds(toks[1], {"element"})

\* C4: once element has succeeded on a builder, every later element call on it
\* fails with the duplicate error.
C4_SecondElementDuplicate ==
    [][\A b \in 1..Len(bld) :
        (Calls(b, {"element"}) /\ ever[b]) => last'.err = DuplicateMsg]_vars

C4_Witness ==
    /\ last.op = "element" /\ last.obj = 1 /\ last.err = DuplicateMsg
    /\ Len(toks[1]) >= 2 /\ toks[1][1].kind = "element"

Later == {"class", "attr", "pseudoClass", "pseudoElement"}

\* C5, as stated, in the chains it names: id on a builder that holds a class,
\* attribute, pseudo-class or pseudo-element token fails with the order error,
\* also when an id was written before that token.
C5_IdAfterLaterIsOrderError ==
    [][\A b \in 1..Len(bld) :
        (Calls(b, {"id"}) /\ Holds(toks[b], Later) /\ Holds(toks[b], {"id"}))
        => last'.err = OrderMsg]_vars

\* C5, amended: id on a builder that holds a class, attribute, pseudo-class or
\* pseudo-element token fails: with the duplicate error when the buffer holds a
\* '#', with the order error otherwise.
C5_IdAfterLaterFails ==
    [][\A b \in 1..Len(bld) :
        (Calls(b, {"id"}) /\ Holds(toks[b], Later))
        => last'.err = IF Includes(bld[b].str, <<"#">>) THEN DuplicateMsg ELSE OrderMsg]_vars

C5_Witness ==
    /\ last.op = "id" /\ last.obj = 1 /\ last.err = DuplicateMsg
    /\ Len(toks[1]) >= 2 /\ toks[1][1].kind = "id" /\ toks[1][2].kind \in Later

\* C6: on a builder that holds a pseudo-element token pseudoElement fails with
\* the duplicate error and pseudoClass with the order error; pseudoElement
\* succeeds on a builder that holds no pseudo-element token.
C6_PseudoElementGuard ==
    [][\A b \in 1..Len(bld) :
        /\ (Calls(b, {"pseudoElement"}) /\ Holds(toks[b], {"pseudoElement"}))
           => last'.err = DuplicateMsg
        /\ (Calls(b, {"pseudoClass"}) /\ Holds(toks[b], {"pseudoElement"}))
           => last'.err = OrderMsg
        /\ (Calls(b, {"pseudoElement"}) /\ ~Holds(toks[b], {"pseudoElement"}))
           => last'.err = NoError]_vars

\* C7: class fails, with the order error, exactly when an attribute, pseudo-class
\* or pseudo-element token was written; attr fails, with the order error, exactly
\* when a pseudo-class or pseudo-element token was written.
C7_ClassAttrGuard ==
    [][\A b \in 1..Len(bld) :
        /\ Calls(b, {"class"})
           => last'.err = IF Holds(toks[b], {"attr", "pseudoClass", "pseudoElement"})
                          THEN OrderMsg ELSE NoError
        /\ Calls(b, {"attr"})
           => last'.err = IF Holds(toks[b], {"pseudoClass", "pseudoElement"})
                          THEN OrderMsg ELSE NoError]_vars

\* C8: a stringify() that follows a stringify() on the same builder, with no
\* call in between, returns the empty string.
C8_SecondStringifyEmpty ==
    [][\A b \in 1..Len(bld) :
        (last.op = "stringify" /\ last.obj = b /\ Calls(b, {"stringify"}))
        => last'.ret = <<>>]_vars

C8_Witness ==
    /\ last.op = "stringify" /\ last.obj = 1 /\ twice
    /\ last.ret = <<>> /\ ever[1]

\* C9: after stringify() a builder is as a fresh one: every mutator call,
\* element included, succeeds on it.
C9_FreshAfterStringify ==
    [][\A b \in 1..Len(bld) :
        (last.op = "stringify" /\ last.obj = b /\ Calls(b, Kinds))
        => last'.err = NoError]_vars

\* C2: the stringify() that follows combine(left, c, right), for two selectors
\* that are fragment builders or results of nested combine calls, returns the
\* text of left, a space, c, a space and the text of right.
C2_CombineText ==
    [][(/\ last.op = "combine"
        /\ Len(pend) = 1
        /\ last'.op = "stringify" /\ last'.obj = Facade)
       => last'.ret = pend[1]]_vars

\* C10: a facade kind method creates a new builder and changes no other object;
\* a mutator or stringify call on a builder changes no other builder and not the
\* facade's buffer.
C10_BuildersIsolated ==
    [][/\ \A b \in 1..Len(bld) :
            Calls(b, Kinds \cup {"stringify"})
            => /\ Len(bld') = Len(bld)
               /\ \A c \in 1..Len(bld) : c # b => bld'[c] = bld[c]
               /\ fstr' = fstr
       /\ (last'.obj = Facade /\ last'.op \in Kinds)
          => /\ Len(bld') = Len(bld) + 1
             /\ last'.retObj = Len(bld) + 1
             /\ \A c \in 1..Len(bld) : bld'[c] = bld[c]
             /\ fstr' = fstr]_vars

C10_Witness ==
    /\ Len(bld) >= 2 /\ bld[2].str # <<>> /\ fstr # <<>>
    /\ last.obj = 1 /\ last.op \in Kinds /\ last.err = NoError

\* C11: a mutator call that fails, with the duplicate or the order error, leaves
\* the buffer and the element flag of its builder as they were, and stringify()
\* returns the text of the calls that were accepted.
C11_FailedCallNoEffect ==
    [][\A b \in 1..Len(bld) :
        /\ (Calls(b, Kinds) /\ last'.err # NoError)
           => /\ last'.err \in {DuplicateMsg, OrderMsg}
              /\ bld'[b] = bld[b]
        /\ Calls(b, {"stringify"}) => last'.ret = Concat(toks[b])]_vars

C11_Witness ==
    /\ last.op = "element" /\ last.obj = 1 /\ last.err = OrderMsg
    /\ ~bld[1].hasElement /\ Len(toks[1]) >= 2 /\ bld[1].str = Concat(toks[1])

\* the stage a chain has reached: the highest place of a token it holds
Stage(ts) ==
    IF ts = <<>> THEN 0
    ELSE CHOOSE r \in 1..6 :
             /\ \E i \in 1..Len(ts) : Rank(ts[i].kind) = r
             /\ \A i \in 1..Len(ts) : Rank(ts[i].kind) <= r

\* the guard that tracks only the kinds of the calls accepted so far: the stage,
\* and whether an element, an id and a pseudo-element were written
StageGuard(ts, kind) ==
    IF kind \in {"element", "id", "pseudoElement"} /\ Holds(ts, {kind}) THEN DuplicateMsg
    ELSE IF kind = "element" /\ ts # <<>> THEN OrderMsg
    ELSE IF kind # "pseudoElement" /\ Stage(ts) > Rank(kind) THEN OrderMsg
    ELSE NoError

\* C12: every call of a chain on a fresh builder, whatever the values, is
\* accepted, or rejected with the same error, as by the guard that tracks only
\* the kinds of the calls accepted before it.
C12_GuardIsFiniteState ==
    [][\A b \in 1..Len(bld) : \A kind \in Kinds :
        (Calls(b, {kind}) /\ FirstChain(b))
        => last'.err = StageGuard(toks[b], kind)]_vars

\* C13: id fails with the duplicate error on a builder that holds an id token,
\* whatever was written after it; fails with the order error on a builder that
\* holds no id token but a class, attribute, pseudo-class or pseudo-element
\* token; and otherwise succeeds and appends '#value'.
C13_IdGuard ==
    [][\A b \in 1..Len(bld) :
        Calls(b, {"id"})
        => IF Holds(toks[b], {"id"}) THEN last'.err = DuplicateMsg
           ELSE IF Holds(toks[b], Later) THEN last'.err = OrderMsg
           ELSE /\ last'.err = NoError
                /\ bld'[b].str = bld[b].str \o <<"#">> \o toks'[b][Len(toks'[b])].value]_vars

\* C14: element fails with the duplicate error on a builder that has accepted an
\* element call, whatever its buffer holds; fails with the order error on a
\* builder that has accepted none and whose buffer is not empty; and otherwise
\* appends the value as it is and marks the element as written.
C14_ElementGuard ==
    [][\A b \in 1..Len(bld) :
        Calls(b, {"element"})
        => IF ever[b] THEN last'.err = DuplicateMsg
           ELSE IF bld[b].str # <<>> THEN last'.err = OrderMsg
           ELSE /\ last'.err = NoError
                /\ bld'[b].hasElement
                /\ bld'[b].str = bld[b].str \o toks'[b][Len(toks'[b])].value]_vars

C14_Witness ==
    /\ last.op = "element" /\ last.obj = 1 /\ last.err = DuplicateMsg
    /\ ever[1] /\ bld[1].str # <<>> /\ ~Holds(toks[1], {"element"})

\* the selectors handed to combine are two different builders
TwoFragments(args) ==
    /\ Len(args) = 2
    /\ args[1] # Facade /\ args[2] # Facade /\ args[1] # args[2]

\* C15: combine on two fragment builders empties the buffers of both and appends
\* the text of the left one, a space, the combinator, a space and the text of
\* the right one to the facade's buffer; after two such calls in a row on an
\* empty facade the buffer holds both results, one after the other, and the
\* facade's stringify() returns the whole buffer.
C15_CombineAppends ==
    [][/\ (last'.op = "combine" /\ TwoFragments(last'.args))
          => /\ bld'[last'.args[1]].str = <<>>
             /\ bld'[last'.args[2]].str = <<>>
             /\ \E combinator \in Combinators :
                    fstr' = fstr \o bld[last'.args[1]].str \o <<" ">> \o combinator
                                 \o <<" ">> \o bld[last'.args[2]].str
             /\ last'.retObj = Facade
       /\ (/\ last.op = "combine" /\ TwoFragments(last.args)
           /\ last'.op = "combine" /\ TwoFragments(last'.args)
           /\ Len(pend') = 2)
          => fstr' = pend'[1] \o pend'[2]
       /\ (last'.op = "stringify" /\ last'.obj = Facade)
          => last'.ret = fstr /\ fstr' = <<>>]_vars

C15_Witness ==
    /\ last.op = "combine" /\ TwoFragments(last.args) /\ twice
    /\ Len(pend) = 2 /\ Len(pend[1]) = 5 /\ Len(pend[2]) >= 4
    /\ fstr = pend[1] \o pend[2]
    /\ bld[last.args[1]].str = <<>> /\ bld[last.args[2]].str = <<>>

\* s is the beginning of t
IsPrefix(s, t) == Len(s) <= Len(t) /\ SubSeq(t, 1, Len(s)) = s

\* C16: a mutator call that succeeds returns the builder it was called on and
\* appends the one token of that call to the buffer; no mutator call, accepted
\* or rejected, takes anything off the buffer.
C16_SuccessAppendsOneToken ==
    [][\A b \in 1..Len(bld) :
        /\ (Calls(b, Kinds) /\ last'.err = NoError)
           => /\ last'.retObj = b
              /\ toks'[b][Len(toks'[b])].kind = last'.op
              /\ bld'[b].str = bld[b].str \o TokenText(toks'[b][Len(toks'[b])])
        /\ Calls(b, Kinds) => IsPrefix(bld[b].str, bld'[b].str)]_vars

C16_Witness ==
    /\ last.op = "attr" /\ last.obj = 1 /\ last.err = NoError /\ last.retObj = 1
    /\ Len(toks[1]) >= 3 /\ toks[1][Len(toks[1])].kind = "attr"
    /\ bld[1].str = Concat(toks[1])

\* C17: a kind method of the facade never fails, whatever was called before; the
\* builder it returns is a new one whose buffer holds the one token of that
\* call, and the facade's own buffer is as it was.
C17_FacadeKindNeverFails ==
    [][\A kind \in Kinds :
        (last'.obj = Facade /\ last'.op = kind)
        => /\ last'.err = NoError
           /\ last'.retObj = Len(bld')
           /\ toks'[last'.retObj] \in {<<[kind |-> kind, value |-> value]>> : value \in FacadeValues}
           /\ bld'[last'.retObj].str = TokenText(toks'[last'.retObj][1])
           /\ fstr' = fstr]_vars

C17_Witness ==
    /\ last.obj = Facade /\ last.op = "id" /\ last.err = NoError /\ last.retObj = 2
    /\ bld[2].str = <<"#", "a">> /\ fstr # <<>>
    /\ bld[1].hasElement /\ bld[1].str = <<>>

\* the text is the result of one combine on two fragments: it holds the two
\* spaces around one combinator and no more
OneCombine(text) == Cardinality({i \in 1..Len(text) : text[i] = " "}) = 2

\* C18: when one combine on two fragment builders was made on the empty facade
\* and no other since, the facade's stringify() returns the text of the left
\* fragment, a space, the combinator, a space and the text of the right one, and
\* leaves the facade's buffer empty; creating fragments in between does not
\* change the facade's buffer.
C18_OneCombineOneStringify ==
    [][/\ (/\ last'.op = "stringify" /\ last'.obj = Facade
           /\ Len(pend) = 1 /\ OneCombine(pend[1]))
          => last'.ret = pend[1] /\ fstr' = <<>>
       /\ (last'.obj = Facade /\ last'.op \in Kinds) => fstr' = fstr]_vars

C18_Witness ==
    /\ last.op = "stringify" /\ last.obj = Facade /\ fstr = <<>>
    /\ last.ret = <<"a", " ", "+", " ", "b">>
    /\ Len(bld) = 3 /\ bld[1].str = <<>> /\ bld[2].str = <<"b">> /\ bld[3].str = <<>>

====
